---- MODULE Spec2Model ----
(***************************************************************************)
(* Vocabulary-tree image retrieval (class CBIR of cbir.py): recursive      *)
(* k-means tree construction (fit), propagation of image features down     *)
(* the tree (propagate, propagate_feature), the inverted index and its     *)
(* weights (index), encoding, scoring and retrieval.                       *)
(*                                                                         *)
(* Feature vectors are one-dimensional integers, so the Euclidean norm of  *)
(* a difference is its absolute value.  Floating point quotients are kept  *)
(* as exact fractions [num, den]; ln(N / N_i) is kept as its argument.     *)
(***************************************************************************)
EXTENDS Integers, Sequences, FiniteSets, TLC

\* ---------------------------------------------------------------- bounds
MaxFeat == 2          \* most feature vectors one image yields
MaxVal == 2           \* feature values and cluster centres range over 0..MaxVal
MaxDepth == 2         \* largest configured depth
MaxIndex == 2         \* most index() calls in one run
MaxRetrieve == 2      \* most retrieve() calls in one run
ScoreFeat == 3        \* most feature vectors of one image where scores are compared
MaxPool == 4          \* most feature vectors of the whole dataset where only fit runs

VARIABLES
    n_branches,       \* self.n_branches
    depth,            \* self.depth
    dataset,          \* self.dataset: image -> the features extract_features gives
    tree,             \* self.tree: node -> sequence of child ids
    nodes,            \* self.nodes: node -> centroid
    current_index,    \* self._current_index
    graph,            \* self.graph: [nodes, adj, attr]
    fitted,           \* per node, the arguments fit was called with
    stack,            \* the active (suspended in their loop) calls of fit
    pc,               \* where index() is: "idle", "weights"
    tasks,            \* the pool's tasks: image -> "none" | "pending" | "done"
    worker,           \* image -> the node attributes of the task's own copy of the graph
    propagated,       \* image -> propagate calls completed on this process's graph
    centres,          \* the centre values the clustering may return
    calls,            \* how many index() and retrieve() calls were made
    out               \* the value the last call returned

vars == <<n_branches, depth, dataset, tree, nodes, current_index, graph, fitted,
          stack, pc, tasks, worker, propagated, centres, calls, out>>

\* ------------------------------------------------------------- the dataset
Corpus == <<"A", "B">>
CorpusSet == {Corpus[i] : i \in 1..Len(Corpus)}
Images == CorpusSet \cup {"Q"}

\* the feature lists of an image: at most n values of 0..MaxVal, listed in
\* non-decreasing order (the order of an image's features changes no count)
FeatureLists(n) ==
    {s \in UNION {[1..m -> 0..MaxVal] : m \in 0..n} :
        \A i \in 1..Len(s), j \in 1..Len(s) : i < j => s[i] <= s[j]}

RECURSIVE Sum(_)
Sum(s) == IF s = <<>> THEN 0 ELSE Head(s) + Sum(Tail(s))

RECURSIVE Concat(_)
Concat(ss) == IF ss = <<>> THEN <<>> ELSE Head(ss) \o Concat(Tail(ss))

Abs(x) == IF x < 0 THEN -x ELSE x

\* a fraction a is smaller than a fraction b (den 0 with num 1 is float("inf"))
Less(a, b) == a.num * b.den < b.num * a.den

Inf == [num |-> 1, den |-> 0]

\* extract_features(): the features of all images, in the order of all_images
ExtractAll == Concat([i \in 1..Len(Corpus) |-> dataset[Corpus[i]]])

\* np.mean(features): one scalar
Mean(features) == [num |-> Sum(features), den |-> Len(features)]

\* ------------------------------------------------------------- the graph
EmptyGraph == [nodes |-> <<>>, adj |-> <<>>, attr |-> <<>>]

InSeq(x, s) == \E i \in 1..Len(s) : s[i] = x

\* networkx add_node: a new node gets no attributes, a known node is kept
AddNode(g, n) ==
    IF InSeq(n, g.nodes) THEN g
    ELSE [nodes |-> Append(g.nodes, n),
          adj   |-> (n :> <<>>) @@ g.adj,
          attr  |-> (n :> <<>>) @@ g.attr]

\* networkx add_edge: adds both ends when missing, then the edge
AddEdge(g, u, v) ==
    LET g2 == AddNode(AddNode(g, u), v)
    IN  IF InSeq(v, g2.adj[u]) THEN g2
        ELSE [g2 EXCEPT !.adj[u] = Append(@, v)]

OutDegree(g, n) == Len(g.adj[n])

\* ------------------------------------------------------------- clustering
\* MiniBatchKMeans.labels_: each feature goes to the nearest centre, the
\* first one among equally near centres
RECURSIVE Nearest(_, _, _, _)
Nearest(f, cs, i, best) ==
    IF i > Len(cs) THEN best
    ELSE Nearest(f, cs, i + 1,
                 IF Abs(f - cs[i]) < Abs(f - cs[best]) THEN i ELSE best)

Labels(features, cs) == [i \in 1..Len(features) |-> Nearest(features[i], cs, 1, 1)]

\* children[label].append(features[i])
RECURSIVE Pick(_, _, _, _)
Pick(features, labels, c, i) ==
    IF i > Len(features) THEN <<>>
    ELSE (IF labels[i] = c THEN <<features[i]>> ELSE <<>>)
         \o Pick(features, labels, c, i + 1)

Children(features, cs) ==
    [c \in 1..Len(cs) |-> Pick(features, Labels(features, cs), c, 1)]

\* cluster_centers_: the centres the clustering may return for k clusters,
\* distinct values listed in increasing order
CenterTuples(k) ==
    {cs \in [1..k -> centres] : \A i \in 1..k, j \in 1..k : i < j => cs[i] < cs[j]}

\* -------------------------------------------------------------------- fit
\* a variant of the leaf test that stops one level later
IsLeafMut(features, current_depth) ==
    current_depth > depth \/ Len(features) < n_branches

\* the leaf test of fit
IsLeaf(features, current_depth) ==
    current_depth >= depth \/ Len(features) < n_branches

\* fit from its entry to the start of its loop over the clusters; cs is what
\* the clustering returns as cluster_centers_
FitEnter(features, node, root, current_depth, cs, tr, g, stk) ==
    LET g1 == AddNode(g, node)
    IN  IF IsLeaf(features, current_depth)
        THEN [tree |-> tr, graph |-> g1, stack |-> stk]
        ELSE [tree  |-> (node :> <<>>) @@ tr,
              graph |-> g1,
              stack |-> <<[node |-> node, children |-> Children(features, cs),
                           centers |-> cs, d |-> current_depth, i |-> 1]>> \o stk]

\* a call fit() on the object as constructed
FitCall ==
    /\ stack = <<>>
    /\ graph = EmptyGraph
    /\ pc = "idle"
    /\ LET features == ExtractAll
           root == Mean(features)
       IN  \E cs \in CenterTuples(n_branches) :
             LET r == FitEnter(features, 0, root, 0, cs, tree, graph, stack)
             IN  /\ tree' = r.tree
                 /\ graph' = r.graph
                 /\ stack' = r.stack
                 /\ nodes' = (0 :> root) @@ nodes
                 /\ fitted' = (0 :> [n |-> Len(features), d |-> 0]) @@ fitted
    /\ out' = [op |-> "fit"]
    /\ UNCHANGED <<n_branches, depth, dataset, current_index, pc, tasks, worker,
                   propagated, centres, calls>>

\* a variant that numbers the children by position (level order)
ChildIdMut(node, i, index) == node * n_branches + i

\* the id of the i-th child of node: the shared counter's next value
ChildId(node, i, index) == index + 1

\* one turn of the loop over the clusters: the next id, the edge and the
\* recursive call up to its own loop
FitLoop ==
    /\ stack # <<>>
    /\ Head(stack).i <= n_branches
    /\ LET top == Head(stack)
           id == ChildId(top.node, top.i, current_index)
           features == top.children[top.i]
           root == [num |-> top.centers[top.i], den |-> 1]
           tr1 == [tree EXCEPT ![top.node] = Append(@, id)]
           g1 == AddEdge(graph, top.node, id)
           stk1 == <<[top EXCEPT !.i = @ + 1]>> \o Tail(stack)
       IN  \E cs \in CenterTuples(n_branches) :
             LET r == FitEnter(features, id, root, top.d + 1, cs, tr1, g1, stk1)
             IN  /\ current_index' = id
                 /\ tree' = r.tree
                 /\ graph' = r.graph
                 /\ stack' = r.stack
                 /\ nodes' = (id :> root) @@ nodes
                 /\ fitted' = (id :> [n |-> Len(features), d |-> top.d + 1]) @@ fitted
    /\ UNCHANGED <<n_branches, depth, dataset, pc, tasks, worker, propagated,
                   centres, calls, out>>

\* the loop is over: the call returns
FitReturn ==
    /\ stack # <<>>
    /\ Head(stack).i > n_branches
    /\ stack' = Tail(stack)
    /\ UNCHANGED <<n_branches, depth, dataset, tree, nodes, current_index, graph,
                   fitted, pc, tasks, worker, propagated, centres, calls, out>>

Fitted == graph # EmptyGraph /\ stack = <<>>

\* ------------------------------------------------------ propagate_feature
\* a variant of the scan that records a child only when it becomes the nearest
RECURSIVE ScanMut(_, _, _, _, _, _)
ScanMut(feature, kids, i, min_dist, node, path) ==
    IF i > Len(kids) THEN [node |-> node, path |-> path]
    ELSE LET child == kids[i]
             c == nodes[child]
             distance == [num |-> Abs(c.num - feature * c.den), den |-> c.den]
         IN  IF Less(distance, min_dist)
             THEN ScanMut(feature, kids, i + 1, distance, child, Append(path, child))
             ELSE ScanMut(feature, kids, i + 1, min_dist, node, path)

\* the scan of the children of a node: every child goes on the path, the
\* first child of strictly smallest distance becomes the node
RECURSIVE Scan(_, _, _, _, _, _)
Scan(feature, kids, i, min_dist, node, path) ==
    IF i > Len(kids) THEN [node |-> node, path |-> path]
    ELSE LET child == kids[i]
             c == nodes[child]
             distance == [num |-> Abs(c.num - feature * c.den), den |-> c.den]
         IN  IF Less(distance, min_dist)
             THEN Scan(feature, kids, i + 1, distance, child, Append(path, child))
             ELSE Scan(feature, kids, i + 1, min_dist, node, Append(path, child))

RECURSIVE Descend(_, _, _)
Descend(feature, node, path) ==
    IF OutDegree(graph, node) = 0 THEN path
    ELSE LET r == Scan(feature, graph.adj[node], 1, Inf, node, path)
         IN  Descend(feature, r.node, r.path)

propagate_feature(feature, node) == Descend(feature, node, <<node>>)

\* a call propagate_feature(feature, node) on the fitted tree
RouteCall ==
    /\ Fitted
    /\ pc = "idle"
    /\ \E feature \in centres, node \in DOMAIN graph.adj :
         out' = [op |-> "route", feature |-> feature, node |-> node,
                 path |-> propagate_feature(feature, node)]
    /\ UNCHANGED <<n_branches, depth, dataset, tree, nodes, current_index, graph,
                   fitted, stack, pc, tasks, worker, propagated, centres, calls>>

\* -------------------------------------------------------------- propagate
\* a variant that marks a visited node instead of counting the visits
VisitMut(attr, node, image_id) ==
    [attr EXCEPT ![node] = (image_id :> 1) @@ attr[node]]

\* self.graph.nodes[node][image_id]: set to 1 when missing, else one more
Visit(attr, node, image_id) ==
    LET files == attr[node]
    IN  [attr EXCEPT ![node] =
            IF image_id \in DOMAIN files
            THEN [files EXCEPT ![image_id] = @ + 1]
            ELSE (image_id :> 1) @@ files]

RECURSIVE VisitPath(_, _, _, _)
VisitPath(attr, path, i, image_id) ==
    IF i > Len(path) THEN attr
    ELSE VisitPath(Visit(attr, path[i], image_id), path, i + 1, image_id)

RECURSIVE PropagateFrom(_, _, _, _)
PropagateFrom(attr, features, i, image_id) ==
    IF i > Len(features) THEN attr
    ELSE PropagateFrom(VisitPath(attr, propagate_feature(features[i], 0), 1, image_id),
                       features, i + 1, image_id)

\* propagate(image_path) on node attributes attr; the id of an image is its name
Propagate(attr, image_path) == PropagateFrom(attr, dataset[image_path], 1, image_path)

\* ------------------------------------------------------------------ index
\* len(self.dataset)
DatasetLen == Len(Corpus)

\* N_i = len(files): the number of keys of the node's attribute dictionary
FilesLen(files) == Cardinality(DOMAIN files)

\* the weights: every node with a non-empty attribute dictionary gets
\* "w" = log(N / N_i), kept as the pair N, N_i
Weights(attr) ==
    [node \in DOMAIN attr |->
        LET files == attr[node]
            N_i == FilesLen(files)
        IN  IF N_i # 0
            THEN ("w" :> [N |-> DatasetLen, N_i |-> N_i]) @@ files
            ELSE files]

RECURSIVE PropagateAll(_, _)
PropagateAll(attr, i) ==
    IF i > Len(Corpus) THEN attr
    ELSE PropagateAll(Propagate(attr, Corpus[i]), i + 1)

\* index(parallel=False)
IndexSequential ==
    /\ Fitted
    /\ pc = "idle"
    /\ calls.index < MaxIndex
    /\ graph' = [graph EXCEPT !.attr = Weights(PropagateAll(graph.attr, 1))]
    /\ propagated' = [i \in Images |-> propagated[i] + IF i \in CorpusSet THEN 1 ELSE 0]
    /\ calls' = [calls EXCEPT !.index = @ + 1]
    /\ out' = [op |-> "index"]
    /\ UNCHANGED <<n_branches, depth, dataset, tree, nodes, current_index, fitted,
                   stack, pc, tasks, worker, centres>>

\* index(parallel=True), the loop: pool.apply_async(self.propagate, (image_path,))
\* for every image; each task is sent this object as it is now, and the
\* call does not wait for it
IndexSchedule ==
    /\ Fitted
    /\ pc = "idle"
    /\ calls.index < MaxIndex
    /\ tasks' = [i \in CorpusSet |-> "pending"]
    /\ worker' = [i \in CorpusSet |-> graph.attr]
    /\ pc' = "weights"
    /\ calls' = [calls EXCEPT !.index = @ + 1]
    /\ UNCHANGED <<n_branches, depth, dataset, tree, nodes, current_index, graph,
                   fitted, stack, propagated, centres, out>>

\* index(parallel=True), after the loop: the weights, from this process's graph
IndexWeights ==
    /\ pc = "weights"
    /\ graph' = [graph EXCEPT !.attr = Weights(graph.attr)]
    /\ pc' = "idle"
    /\ out' = [op |-> "index"]
    /\ UNCHANGED <<n_branches, depth, dataset, tree, nodes, current_index, fitted,
                   stack, tasks, worker, propagated, centres, calls>>

\* a pool process runs a task: propagate on the copy of the object it received
WorkerRun ==
    \E i \in CorpusSet :
        /\ tasks[i] = "pending"
        /\ worker' = [worker EXCEPT ![i] = Propagate(@, i)]
        /\ tasks' = [tasks EXCEPT ![i] = "done"]
        /\ UNCHANGED <<n_branches, depth, dataset, tree, nodes, current_index, graph,
                       fitted, stack, pc, propagated, centres, calls, out>>

\* --------------------------------------------------------- encode and score
\* encode(image_id, return_graph=False): the visit counts of the image over
\* graph.nodes, each divided by their L1 norm
encode(attr, image_id) ==
    LET tfidf == [k \in 1..Len(graph.nodes) |->
                    LET files == attr[graph.nodes[k]]
                    IN  IF image_id \in DOMAIN files THEN files[image_id] ELSE 0]
        norm == Sum([k \in 1..Len(tfidf) |-> Abs(tfidf[k])])
    IN  [k \in 1..Len(tfidf) |-> [num |-> tfidf[k], den |-> norm]]

\* np.sum(d * q)
Dot(d, q) ==
    [num |-> Sum([k \in 1..Len(d) |-> d[k].num * q[k].num]),
     den |-> IF Len(d) = 0 THEN 1 ELSE d[1].den * q[1].den]

\* score(first_image_path, second_image_path) = 2 - 2 * np.sum(d * q)
score(attr, first_image_path, second_image_path) ==
    LET d == encode(attr, first_image_path)
        q == encode(attr, second_image_path)
        dot == Dot(d, q)
    IN  [num |-> 2 * dot.den - 2 * dot.num, den |-> dot.den]

\* sorted(scores.items(), key=lambda item: item[1]): a stable insertion of
\* each item in turn; a comparison with nan is false
RECURSIVE Insert(_, _, _)
Insert(sorted, item, scores) ==
    IF sorted # <<>> /\ Less(scores[item], scores[sorted[Len(sorted)]])
    THEN Append(Insert(SubSeq(sorted, 1, Len(sorted) - 1), item, scores),
                sorted[Len(sorted)])
    ELSE Append(sorted, item)

RECURSIVE SortFrom(_, _, _)
SortFrom(sorted, i, scores) ==
    IF i > Len(Corpus) THEN sorted
    ELSE SortFrom(Insert(sorted, Corpus[i], scores), i + 1, scores)

\* retrieve(query_image_path)
Retrieve ==
    /\ Fitted
    /\ pc = "idle"
    /\ calls.retrieve < MaxRetrieve
    /\ \E query \in Images :
         LET attr == Propagate(graph.attr, query)
             scores == [db \in CorpusSet |-> score(attr, db, query)]
         IN  /\ graph' = [graph EXCEPT !.attr = attr]
             /\ propagated' = [propagated EXCEPT ![query] = @ + 1]
             /\ out' = [op |-> "retrieve", query |-> query, scores |-> scores,
                        sorted_scores |-> SortFrom(<<>>, 1, scores)]
    /\ calls' = [calls EXCEPT !.retrieve = @ + 1]
    /\ UNCHANGED <<n_branches, depth, dataset, tree, nodes, current_index, fitted,
                   stack, pc, tasks, worker, centres>>

\* a call encode(image_id, return_graph=False)
EncodeCall ==
    /\ Fitted
    /\ pc = "idle"
    /\ \E image_id \in Images :
         out' = [op |-> "encode", image_id |-> image_id, raised |-> FALSE,
                 value |-> encode(graph.attr, image_id)]
    /\ UNCHANGED <<n_branches, depth, dataset, tree, nodes, current_index, graph,
                   fitted, stack, pc, tasks, worker, propagated, centres, calls>>

\* a call score(first_image_path, second_image_path)
ScoreCall ==
    /\ Fitted
    /\ pc = "idle"
    /\ \E first \in Images, second \in Images :
         out' = [op |-> "score", first |-> first, second |-> second,
                 value |-> score(graph.attr, first, second)]
    /\ UNCHANGED <<n_branches, depth, dataset, tree, nodes, current_index, graph,
                   fitted, stack, pc, tasks, worker, propagated, centres, calls>>

\* ------------------------------------------------------------ construction
\* the object as constructed (initialise=False), over a dataset of two images
\* A and B and a query image Q whose features are those of A
InitWith(branches, depths, featsA, featsB, cvals) ==
    /\ n_branches \in branches
    /\ depth \in depths
    /\ \E a \in featsA, b \in featsB :
         dataset = [i \in Images |-> IF i = "B" THEN b ELSE a]
    /\ tree = <<>>
    /\ nodes = <<>>
    /\ current_index = 0
    /\ graph = EmptyGraph
    /\ fitted = <<>>
    /\ stack = <<>>
    /\ pc = "idle"
    /\ tasks = [i \in CorpusSet |-> "none"]
    /\ worker = [i \in CorpusSet |-> <<>>]
    /\ propagated = [i \in Images |-> 0]
    /\ centres = cvals
    /\ calls = [index |-> 0, retrieve |-> 0]
    /\ out = [op |-> "init"]

Branches == {2, 3}

\* fit sees the features of all images as one list (extract_features), so
\* where only fit and propagate_feature run the whole list is image A's
InitFit ==
    InitWith(Branches, 1..MaxDepth, FeatureLists(MaxPool), {<<>>}, 0..MaxVal)

NextFit == FitCall \/ FitLoop \/ FitReturn

SpecFit == InitFit /\ [][NextFit]_vars

NextRoute == FitCall \/ FitLoop \/ FitReturn \/ RouteCall

SpecRoute == InitFit /\ [][NextRoute]_vars

Init == InitWith({2}, 1..MaxDepth, FeatureLists(MaxFeat), FeatureLists(MaxFeat), 0..MaxVal)

Next ==
    \/ FitCall \/ FitLoop \/ FitReturn
    \/ IndexSequential \/ IndexSchedule \/ IndexWeights \/ WorkerRun

Spec == Init /\ [][Next]_vars

NextScore ==
    \/ FitCall \/ FitLoop \/ FitReturn
    \/ IndexSequential \/ Retrieve \/ EncodeCall \/ ScoreCall

InitScore ==
    InitWith({3}, {MaxDepth}, FeatureLists(ScoreFeat), FeatureLists(MaxFeat), 0..MaxVal)

SpecScore == InitScore /\ [][NextScore]_vars

NextRetrieve == FitCall \/ FitLoop \/ FitReturn \/ IndexSequential \/ Retrieve

SpecRetrieve == Init /\ [][NextRetrieve]_vars

\* eight feature points in two groups of four: 0 0 1 1 and 2 2 3 3
InitScenario == InitWith({2}, {2}, {<<0, 0, 1, 1>>}, {<<2, 2, 3, 3>>}, 0..3)

SpecScenario == InitScenario /\ [][NextFit]_vars

\* ================================================================ claims
NodeSet == {graph.nodes[k] : k \in 1..Len(graph.nodes)}

\* the visit count of an image at a node (0 when it has no entry)
Count(attr, node, image) ==
    IF image \in DOMAIN attr[node] THEN attr[node][image] ELSE 0

\* the images with an entry at a node
Visitors(attr, node) == DOMAIN attr[node] \cap Images

\* ---------------------------------------------------------------- C1
\* C1: index() with parallel propagation goes on to the weights only when
\* every scheduled propagate task is done, and by then every image with
\* features has its visits in this process's graph (it has visited the root).
C1_WeightsAfterAllTasks ==
    [][(pc = "weights" /\ pc' = "idle") =>
         /\ \A i \in CorpusSet : tasks[i] = "done"
         /\ \A i \in CorpusSet : dataset[i] # <<>> => Count(graph.attr, 0, i) > 0]_vars

\* ---------------------------------------------------------------- C2
\* C2: when index() has returned, every node visited by N_i >= 1 distinct
\* images has weight ln(N / N_i) and every unvisited node has no stored
\* weight (the default 1), whatever calls came before.
C2_WeightIsIdf ==
    out.op = "index" =>
        \A node \in NodeSet :
            LET files == graph.attr[node]
                N_i == Cardinality(Visitors(graph.attr, node))
            IN  IF N_i = 0 THEN "w" \notin DOMAIN files
                ELSE /\ "w" \in DOMAIN files
                     /\ files["w"].N * N_i = DatasetLen * files["w"].N_i

\* ---------------------------------------------------------------- C3
\* C3: retrieve on the indexed corpus with a query whose features are those
\* of a corpus image X gives no other corpus image a smaller score than X.
C3_TwinRanksFirst ==
    (out.op = "retrieve" /\ calls.index >= 1) =>
        \A X \in CorpusSet :
            dataset[X] = dataset[out.query] =>
                /\ \A Y \in CorpusSet : ~Less(out.scores[Y], out.scores[X])
                /\ ~Less(out.scores[X], out.scores[out.sorted_scores[1]])
                /\ ~Less(out.scores[out.sorted_scores[1]], out.scores[X])

\* ---------------------------------------------------------------- C4
\* C4: the score of an image that has visits against itself is 0.
C4_SelfScoreZero ==
    (/\ out.op = "score"
     /\ out.first = out.second
     /\ \E node \in NodeSet : Count(graph.attr, node, out.first) > 0)
        => (out.value.den # 0 /\ out.value.num = 0)

\* ---------------------------------------------------------------- C5
\* C5: the path propagate_feature returns starts at the given node and ends
\* at a node without children.
C5_RouteEndsAtLeaf ==
    out.op = "route" =>
        /\ out.path[1] = out.node
        /\ OutDegree(graph, out.path[Len(out.path)]) = 0

\* ---------------------------------------------------------------- C6
\* the scenario's case: the root's two groups hold four features each and
\* each of them splits into two non-empty groups
ScenarioCase ==
    /\ Fitted
    /\ 0 \in DOMAIN tree
    /\ \A c \in {tree[0][k] : k \in 1..Len(tree[0])} :
         /\ fitted[c].n = 4
         /\ c \in DOMAIN tree
         /\ \A g \in {tree[c][k] : k \in 1..Len(tree[c])} : fitted[g].n > 0

Leaves == {node \in NodeSet : OutDegree(graph, node) = 0}

\* C6 as stated: seven nodes, the root's children are 1 and 2, those of 1
\* are 3 and 4, those of 2 are 5 and 6, and every leaf is at depth 2.
C6_BreadthFirstIds ==
    ScenarioCase =>
        /\ NodeSet = 0..6
        /\ tree = (0 :> <<1, 2>>) @@ (1 :> <<3, 4>>) @@ (2 :> <<5, 6>>)
        /\ \A leaf \in Leaves : fitted[leaf].d = 2

\* C6 amended: seven nodes, numbered in the order of the recursive calls:
\* the root's children are 1 and 4, those of 1 are 2 and 3, those of 4 are
\* 5 and 6, and every leaf is at depth 2.
C6_PreOrderIds ==
    ScenarioCase =>
        /\ NodeSet = 0..6
        /\ tree = (0 :> <<1, 4>>) @@ (1 :> <<2, 3>>) @@ (4 :> <<5, 6>>)
        /\ \A node \in DOMAIN tree : graph.adj[node] = tree[node]
        /\ Leaves = {2, 3, 5, 6}
        /\ \A leaf \in Leaves : fitted[leaf].d = 2

C6_Witness == ScenarioCase

\* ---------------------------------------------------------------- C7
\* C7: after fit, a node with children has exactly n_branches of them, and a
\* node without children is at the configured depth or was given fewer than
\* n_branches features.
C7_TreeShape ==
    Fitted =>
        \A node \in NodeSet :
            IF OutDegree(graph, node) > 0
            THEN /\ OutDegree(graph, node) = n_branches
                 /\ node \in DOMAIN tree
                 /\ tree[node] = graph.adj[node]
            ELSE /\ node \notin DOMAIN tree
                 /\ fitted[node].d = depth \/ fitted[node].n < n_branches

\* a fitted tree with an inner node below the root, a leaf above the
\* configured depth and a child of a cluster that received no features
C7_Witness ==
    /\ Fitted
    /\ \E node \in NodeSet : node # 0 /\ OutDegree(graph, node) = n_branches
    /\ \E leaf \in Leaves : fitted[leaf].d < depth /\ fitted[leaf].n > 0
    /\ \E leaf \in Leaves : fitted[leaf].n = 0

\* ---------------------------------------------------------------- C8
\* C8: encode of an image without any visit ends in an error and returns no
\* vector.
C8_UnindexedRaises ==
    (/\ out.op = "encode"
     /\ \A node \in NodeSet : Count(graph.attr, node, out.image_id) = 0)
        => out.raised

\* ---------------------------------------------------------------- C9
\* how often a node occurs on the paths of an image's features
RECURSIVE Occurrences(_, _)
Occurrences(path, node) ==
    IF path = <<>> THEN 0
    ELSE (IF Head(path) = node THEN 1 ELSE 0) + Occurrences(Tail(path), node)

PerCall(node, image) ==
    Sum([k \in 1..Len(dataset[image]) |->
            Occurrences(propagate_feature(dataset[image][k], 0), node)])

\* C9: a retrieve call adds to the query's count at every node the number of
\* times the node occurs on the paths of the query's features, changes no
\* other image's count and not the tree; so the counts of an image are its
\* per-call increments times the number of propagate calls made for it.
C9_RetrieveAccumulates ==
    /\ [][calls'.retrieve = calls.retrieve + 1 =>
            /\ \A node \in NodeSet :
                /\ Count(graph'.attr, node, out'.query)
                     = Count(graph.attr, node, out'.query) + PerCall(node, out'.query)
                /\ \A other \in Images \ {out'.query} :
                     Count(graph'.attr, node, other) = Count(graph.attr, node, other)
            /\ graph'.nodes = graph.nodes /\ graph'.adj = graph.adj
            /\ tree' = tree /\ nodes' = nodes]_vars
    /\ [](Fitted =>
            \A node \in NodeSet, image \in Images :
                Count(graph.attr, node, image) = propagated[image] * PerCall(node, image))

\* the same query retrieved twice, on a tree where it reaches a node twice
\* per call
C9_Witness ==
    /\ out.op = "retrieve"
    /\ calls.index >= 1
    /\ out.query \notin CorpusSet
    /\ propagated[out.query] = 2
    /\ \E node \in NodeSet : node # 0 /\ Count(graph.attr, node, out.query) = 4
    /\ \E node \in NodeSet : Count(graph.attr, node, out.query) = 2

\* --------------------------------------------------------------- C10
\* the distance of a feature to the centroid of a node
Dist(feature, node) ==
    [num |-> Abs(nodes[node].num - feature * nodes[node].den), den |-> nodes[node].den]

\* the child selected at a node: of strictly smallest distance among those
\* scanned before it, of smallest distance among all
Selected(feature, node) ==
    LET kids == graph.adj[node]
        k == CHOOSE k \in 1..Len(kids) :
                /\ \A j \in 1..Len(kids) : ~Less(Dist(feature, kids[j]), Dist(feature, kids[k]))
                /\ \A j \in 1..(k - 1) : Less(Dist(feature, kids[k]), Dist(feature, kids[j]))
    IN  kids[k]

\* the nodes the greedy descent selects, from the start node to a leaf
RECURSIVE Greedy(_, _)
Greedy(feature, node) ==
    IF graph.adj[node] = <<>> THEN <<node>>
    ELSE <<node>> \o Greedy(feature, Selected(feature, node))

\* the start node, then all children of every selected node
AllScanned(feature, node) ==
    LET g == Greedy(feature, node)
    IN  <<node>> \o Concat([k \in 1..Len(g) |-> graph.adj[g[k]]])

\* how many features of an image select a node
Selecting(node, image) ==
    Cardinality({k \in 1..Len(dataset[image]) :
                    InSeq(node, Greedy(dataset[image][k], 0))})

====
